---- MODULE Spec2Model ----
(***************************************************************************)
(* onchain_monitor: the paginated holder collection of AnkrClient           *)
(* (ankr_client.py) and the snapshot build of snapshot.py, as one           *)
(* sequential run of create_holders_snapshot against a provider whose RPC   *)
(* answers are chosen nondeterministically.                                 *)
(*                                                                          *)
(* Python values: an Optional is a sequence of length <= 1 (None is <<>>,   *)
(* the value v is <<v>>); a str that the code inspects character by         *)
(* character (an address) is a sequence of one-character strings; a dict    *)
(* is a function whose DOMAIN is its key set.                               *)
(***************************************************************************)
EXTENDS Integers, Sequences, FiniteSets, TLC

VARIABLES provider, client_given, has_callback, pc, should_close,
          holder_count, metadata, page_token, all_holders, holders, price,
          snapshot, exc, returned, request_id, http_open, files, trace,
          old_snapshot, new_snapshot, diff, label_address, label

\* The run of create_holders_snapshot.
buildVars == <<provider, client_given, has_callback, pc, should_close,
               holder_count, metadata, page_token, all_holders, holders, price,
               snapshot, exc, returned, request_id, http_open, files, trace>>

\* The arguments and results of compare_snapshots and get_holder_label.
pureVars == <<old_snapshot, new_snapshot, diff, label_address, label>>

vars == <<buildVars, pureVars>>

\* ---------------------------------------------------------------- bounds
\* Holders on one provider page.
MaxPageLen == 1
\* Page requests one get_all_holders run is followed for (a provider whose
\* cursors cycle keeps the loop going for ever).
MaxFetches == 3
\* The holderCount the provider declares, when it declares one.
DeclaredCount == 2

\* ---------------------------------------------------------- Python values
None == <<>>
Some(v) == <<v>>
EmptyDict == [k \in {} |-> 0]

\* dict.get(key, default)
Get(d, k, default) == IF k \in DOMAIN d THEN d[k] ELSE default

\* Truth value of an Optional[str]: None and "" are falsy.
Truthy(tok) == tok # None /\ tok # Some("")

LowerChar(c) ==
  CASE c = "A" -> "a" [] c = "B" -> "b" [] c = "C" -> "c" [] c = "D" -> "d"
    [] c = "E" -> "e" [] c = "F" -> "f" [] c = "X" -> "x" [] OTHER -> c

\* str.lower()
Lower(s) == [i \in 1 .. Len(s) |-> LowerChar(s[i])]

\* ------------------------------------------------------------ label table
KNOWN_LABELS ==
  (<<"0","x","0","0","0","0","0","0","0","0","0","0","0","0","0","0","0","0","0","0","0","0","0","0","0","0","0","0","0","0","0","0","0","0","0","0","0","0","d","E","a","D">>
     :> "Burn Address" @@
   <<"0","x","0","0","0","0","0","0","0","0","0","0","0","0","0","0","0","0","0","0","0","0","0","0","0","0","0","0","0","0","0","0","0","0","0","0","0","0","0","0","0","0">>
     :> "Null Address" @@
   <<"0","x","F","9","7","7","8","1","4","e","9","0","d","A","4","4","b","F","A","0","3","b","6","2","9","5","A","0","6","1","6","a","8","9","7","4","4","1","a","c","e","C">>
     :> "Binance Hot Wallet" @@
   <<"0","x","8","8","9","4","E","0","a","0","c","9","6","2","C","B","7","2","3","c","1","9","7","6","a","4","4","2","1","c","9","5","9","4","9","b","E","2","D","4","E","3">>
     :> "Binance" @@
   <<"0","x","e","2","f","c","3","1","F","8","1","6","A","9","b","9","4","3","2","6","4","9","2","1","3","2","0","1","8","C","3","a","E","c","C","4","a","9","3","a","E","1">>
     :> "Binance" @@
   <<"0","x","3","c","7","8","3","c","2","1","a","0","3","8","3","0","5","7","D","1","2","8","b","a","e","4","3","1","8","9","4","a","5","C","1","9","F","9","C","f","0","6">>
     :> "Binance" @@
   <<"0","x","5","a","5","2","E","9","6","B","A","c","d","a","B","b","8","2","f","d","0","5","7","6","3","E","2","5","3","3","5","2","6","1","B","2","7","0","E","f","c","b">>
     :> "OKX" @@
   <<"0","x","6","c","C","5","F","6","8","8","a","3","1","5","f","3","d","C","2","8","A","7","7","8","1","7","1","7","a","9","A","7","9","8","a","5","9","f","D","A","7","b">>
     :> "OKX" @@
   <<"0","x","2","8","C","6","c","0","6","2","9","8","d","5","1","4","D","b","0","8","9","9","3","4","0","7","1","3","5","5","E","5","7","4","3","b","f","2","1","d","6","0">>
     :> "Binance 14" @@
   <<"0","x","2","1","a","3","1","E","e","1","a","f","C","5","1","d","9","4","C","2","e","F","c","C","A","a","2","0","9","2","a","D","1","0","2","8","2","8","5","5","4","9">>
     :> "Bybit")

NULL_ADDRESS ==
  <<"0","x","0","0","0","0","0","0","0","0","0","0","0","0","0","0","0","0","0","0","0","0","0","0","0","0","0","0","0","0","0","0","0","0","0","0","0","0","0","0","0","0">>

\* get_holder_label: exact match, then the lower-cased address, then "".
get_holder_label(address) ==
  Get(KNOWN_LABELS, address, Get(KNOWN_LABELS, Lower(address), ""))

\* ----------------------------------------------------------------- inputs
\* The token contract the snapshot is built for.
Contract == <<"0", "x", "C", "a">>
Blockchain == "bsc"

\* Raw holder records as the provider sends them: a full record of an
\* unlabelled address, and the null address without its balance fields.
RawFull ==
  [holderAddress |-> <<"0", "x", "A", "b">>, balance |-> "100.0",
   balanceRawInteger |-> "100"]
RawBare == [holderAddress |-> NULL_ADDRESS]
RawRecords == {RawFull, RawBare}

NoRepeat(s) == \A i, j \in 1 .. Len(s) : i # j => s[i] # s[j]

RECURSIVE SeqsUpTo(_, _)
\* The sequences of at most n elements of S that name none twice: a page
\* lists a holder once (two pages may list the same holder).
SeqsUpTo(S, n) ==
  IF n = 0 THEN {<<>>}
  ELSE LET shorter == SeqsUpTo(S, n - 1)
           longer == {Append(s, x) : s \in {t \in shorter : Len(t) = n - 1}, x \in S}
       IN  shorter \cup {s \in longer : NoRepeat(s)}

\* Page tokens the provider hands out, and the cursors a request can carry.
Tokens == {"t1", "t2"}
Cursors == {None} \cup {Some(t) : t \in Tokens}

\* "result" of ankr_getTokenHolders: the holders of the page and, unless it
\* is the last one, nextPageToken (which may be the empty string).
PageResults ==
  LET hs == SeqsUpTo(RawRecords, MaxPageLen)
  IN  {[holders |-> h] : h \in hs}
        \cup {[holders |-> h, nextPageToken |-> t] : h \in hs, t \in Tokens \cup {""}}

\* The cursor a page result points to.
NextOf(result) ==
  IF "nextPageToken" \in DOMAIN result THEN Some(result.nextPageToken) ELSE None

\* Cursors the provider can be asked for, following next tokens from the
\* first page.
RECURSIVE ReachFrom(_, _, _)
ReachFrom(p, cur, seen) ==
  IF cur \in seen \/ cur \notin Cursors THEN seen
  ELSE ReachFrom(p, NextOf(p[cur]), seen \cup {cur})

Reachable(p) == ReachFrom(p, None, {})

\* The provider's page sequence from the first page on, while the pages
\* carry a non-empty token: <<>> once `n` pages were followed.
RECURSIVE PagesFrom(_, _, _)
PagesFrom(p, cur, n) ==
  IF n = 0 THEN <<>>
  ELSE IF Truthy(NextOf(p[cur]))
       THEN <<p[cur]>> \o PagesFrom(p, NextOf(p[cur]), n - 1)
       ELSE <<p[cur]>>

\* The provider's pages are a finite sequence ended by an absent/empty token.
Terminated(p) ==
  LET ps == PagesFrom(p, None, Cardinality(Cursors))
  IN  ~Truthy(NextOf(ps[Len(ps)]))

PageSequence(p) == PagesFrom(p, None, Cardinality(Cursors))

\* Providers: a page for every cursor. A cursor no page chain leads to is
\* never requested, so its page is fixed; tokens are opaque, so the first
\* page's token, when it names a further page, is "t1".
Providers ==
  {p \in [Cursors -> PageResults] :
     /\ \A c \in Cursors \ Reachable(p) : p[c] = [holders |-> <<>>]
     /\ NextOf(p[None]) # Some("t2")}

\* JSON-RPC responses: an HTTP/transport failure, an error envelope, or a
\* body with (or without) "result".
HttpError == [failure |-> "HTTPStatusError"]
ErrorBody == [error |-> "Invalid request"]
OkBody(result) == [result |-> result]

CountResults == {EmptyDict, [holderCount |-> DeclaredCount]}

CurrencyOther ==
  [address |-> <<"0", "x", "D", "d">>, name |-> "Other", symbol |-> "OTH",
   decimals |-> 8]
CurrencyMatch ==
  [address |-> <<"0", "x", "c", "A">>, name |-> "Test Token", symbol |-> "TEST",
   decimals |-> 18]
CurrenciesResults ==
  {EmptyDict, [currencies |-> <<CurrencyOther>>],
   [currencies |-> <<CurrencyOther, CurrencyMatch>>]}

\* usdPrice as the provider sends it: a decimal string, or text float()
\* rejects.
PriceResults == {EmptyDict, [usdPrice |-> "0.0025"], [usdPrice |-> "n/a"]}

\* datetime.now() when the snapshot is assembled, and as save_snapshot
\* formats it into the file name.
Timestamps == {"T1", "T2"}
FileTimes == {"20260101_000000"}

\* ------------------------------------------------------------- AnkrClient
\* _call on a response: <<"raise", exception>> or <<"ok", result>>.
RpcCall(response) ==
  IF "failure" \in DOMAIN response THEN <<"raise", response.failure>>
  ELSE IF "error" \in DOMAIN response THEN <<"raise", "ValueError">>
  ELSE <<"ok", Get(response, "result", EmptyDict)>>

Responses(results) == {HttpError, ErrorBody} \cup {OkBody(r) : r \in results}

\* "ok", or the exception _call raises on the response.
Outcome(response) ==
  IF RpcCall(response)[1] = "raise" THEN RpcCall(response)[2] ELSE "ok"

\* One _call as logged in `trace`: the method, the pageToken parameter and
\* how the call ended.
Rpc(method, cursor, response) ==
  [ev |-> "rpc", arg |-> <<method, cursor, Outcome(response)>>]

\* A get_token_holders_count that answers 0 when _call raises.
get_token_holders_count_swallowing(response) ==
  LET r == RpcCall(response)
  IN  IF r[1] = "raise" THEN <<"ok", 0>>
      ELSE <<"ok", Get(r[2], "holderCount", 0)>>

\* get_token_holders_count: int(result.get("holderCount", 0)); an exception
\* of _call propagates.
get_token_holders_count(response) ==
  LET r == RpcCall(response)
  IN  IF r[1] = "raise" THEN r
      ELSE <<"ok", Get(r[2], "holderCount", 0)>>

\* A request that never carries a cursor.
PageTokenParamAbsent(tok) == None

\* The pageToken parameter get_token_holders sends: none for a falsy token.
PageTokenParam(tok) == IF Truthy(tok) THEN tok ELSE None

TokenHolder(h) ==
  [address |-> Get(h, "holderAddress", <<>>),
   balance |-> Get(h, "balance", "0"),
   balance_raw |-> Get(h, "balanceRawInteger", "0"),
   label |-> get_holder_label(Get(h, "holderAddress", <<>>))]

\* get_token_holders on the RPC result: <<holders, next_token>>.
get_token_holders(result) ==
  LET raw == Get(result, "holders", <<>>)
  IN  <<[i \in 1 .. Len(raw) |-> TokenHolder(raw[i])], NextOf(result)>>

\* An accumulation that puts the new page first.
ExtendInFront(all, page) == page \o all

\* An accumulation that keeps the first record of each address only.
ExtendDistinct(all, page) ==
  all \o SelectSeq(page, LAMBDA h : \A i \in 1 .. Len(all) : all[i].address # h.address)

\* get_all_holders, line 213: all_holders.extend(holders)
Extend(all, page) == all \o page

\* A callback step that is skipped while nothing was accumulated.
ProgressUnlessEmpty(cb, all) ==
  IF cb /\ all # <<>> THEN <<[ev |-> "progress", arg |-> <<Len(all)>>]>> ELSE <<>>

\* get_all_holders, lines 215-216: the callback, when there is one, gets the
\* running total.
Progress(cb, all) ==
  IF cb THEN <<[ev |-> "progress", arg |-> <<Len(all)>>]>> ELSE <<>>

\* An exit test without the empty-page guard.
LoopDoneOnTokenOnly(next_token, page) == ~Truthy(next_token)

\* get_all_holders, line 218: the loop's exit test
LoopDone(next_token, page) == ~Truthy(next_token) \/ page = <<>>

\* get_all_holders, lines 210-219, on a fetched page: what the iteration
\* leaves and whether the loop goes on.
PageFetched(all, result, cb) ==
  LET got == get_token_holders(result)
      new == Extend(all, got[1])
  IN  [status |-> IF LoopDone(got[2], got[1]) THEN "return" ELSE "continue",
       all_holders |-> new,
       page_token |-> got[2],
       events |-> Progress(cb, new),
       exc |-> None]

\* A loop that catches the exception and returns what it has.
PageFailedReturningPartial(all, exception) ==
  [status |-> "return", all_holders |-> all, page_token |-> None,
   events |-> <<>>, exc |-> None]

\* get_all_holders, lines 210-212, when the fetch raises: nothing catches
\* it, so it leaves the loop and the function.
PageFailed(all, exception) ==
  [status |-> "raise", all_holders |-> all, page_token |-> None,
   events |-> <<>>, exc |-> Some(exception)]

\* float() of a usdPrice string: <<"ok", value in 1/10000 USD>> or
\* <<"raise", exception>>.
Float(x) ==
  IF x = "0.0025" THEN <<"ok", 25>>
  ELSE IF x = "0" THEN <<"ok", 0>>
  ELSE <<"raise", "ValueError">>

\* A get_token_price without its except clause.
get_token_price_raising(response) ==
  LET r == RpcCall(response)
  IN  IF r[1] = "raise" THEN r
      ELSE LET f == IF "usdPrice" \in DOMAIN r[2] THEN Float(r[2].usdPrice)
                    ELSE <<"ok", 0>>
           IN  IF f[1] = "raise" THEN f ELSE <<"ok", Some(f[2])>>

\* get_token_price on a response: float(result.get("usdPrice", 0)), or None
\* on any exception.
get_token_price(response) ==
  LET r == RpcCall(response)
  IN  IF r[1] = "raise" THEN <<"ok", None>>
      ELSE LET f == IF "usdPrice" \in DOMAIN r[2] THEN Float(r[2].usdPrice)
                    ELSE <<"ok", 0>>
           IN  IF f[1] = "raise" THEN <<"ok", None>> ELSE <<"ok", Some(f[2])>>

RECURSIVE FindCurrency(_, _)
FindCurrency(currencies, contract) ==
  IF currencies = <<>> THEN None
  ELSE IF Lower(Get(Head(currencies), "address", <<>>)) = Lower(contract)
       THEN Some([contract |-> contract, blockchain |-> Blockchain,
                  name |-> Get(Head(currencies), "name", "Unknown"),
                  symbol |-> Get(Head(currencies), "symbol", "???"),
                  decimals |-> Get(Head(currencies), "decimals", 18)])
       ELSE FindCurrency(Tail(currencies), contract)

\* get_token_metadata on a response: TokenMetadata, or None when the token
\* is not listed or on any exception.
get_token_metadata(response) ==
  LET r == RpcCall(response)
  IN  IF r[1] = "raise" THEN <<"ok", None>>
      ELSE <<"ok", FindCurrency(Get(r[2], "currencies", <<>>), Contract)>>

\* ------------------------------------------------- create_holders_snapshot
\* No call of compare_snapshots or get_holder_label is under way.
PureIdle ==
  /\ old_snapshot = None /\ new_snapshot = None /\ diff = None
  /\ label_address = None /\ label = None

Init ==
  /\ PureIdle
  /\ provider \in Providers
  /\ client_given \in BOOLEAN
  /\ has_callback \in BOOLEAN
  /\ pc = "enter"
  /\ should_close = FALSE
  /\ holder_count = None
  /\ metadata = None
  /\ page_token = None
  /\ all_holders = <<>>
  /\ holders = None
  /\ price = None
  /\ snapshot = None
  /\ exc = None
  /\ returned = None
  /\ request_id = 0
  /\ http_open = FALSE
  /\ files = <<>>
  /\ trace = <<>>

IsRpc(e, method) == e.ev = "rpc" /\ e.arg[1] = method

\* Page requests get_all_holders has issued.
Fetches == SelectSeq(trace, LAMBDA e : IsRpc(e, "ankr_getTokenHolders"))

\* A build that closes whatever client it uses.
ShouldCloseAlways(given) == TRUE

\* Lines 62-65: should_close, set when the build creates its own client.
ShouldClose(given) == ~given

\* Lines 62-65: a client is created, and owned, when none was passed.
Enter ==
  /\ UNCHANGED pureVars
  /\ pc = "enter"
  /\ should_close' = ShouldClose(client_given)
  /\ pc' = "count"
  /\ UNCHANGED <<provider, client_given, has_callback, holder_count, metadata,
                 page_token, all_holders, holders, price, snapshot, exc,
                 returned, request_id, http_open, files, trace>>

\* Line 69: the declared holder count; a failed call leaves the try block.
GetTokenHoldersCount ==
  /\ UNCHANGED pureVars
  /\ pc = "count"
  /\ \E response \in Responses(CountResults) :
       LET r == get_token_holders_count(response)
       IN  /\ trace' = Append(trace, Rpc("ankr_getTokenHoldersCount", None, response))
           /\ IF r[1] = "raise"
              THEN /\ exc' = Some(r[2])
                   /\ pc' = "finally"
                   /\ UNCHANGED holder_count
              ELSE /\ holder_count' = Some(r[2])
                   /\ pc' = "metadata"
                   /\ UNCHANGED exc
  /\ request_id' = request_id + 1
  /\ http_open' = TRUE
  /\ UNCHANGED <<provider, client_given, has_callback, should_close, metadata,
                 page_token, all_holders, holders, price, snapshot, returned,
                 files>>

\* Lines 73-75 and 206-207: the metadata, then get_all_holders starts with
\* an empty accumulator and no cursor.
GetTokenMetadata ==
  /\ UNCHANGED pureVars
  /\ pc = "metadata"
  /\ \E response \in Responses(CurrenciesResults) :
       LET r == get_token_metadata(response)
       IN  /\ trace' = Append(trace, Rpc("ankr_getCurrencies", None, response))
           /\ IF r[1] = "raise"
              THEN /\ exc' = Some(r[2])
                   /\ pc' = "finally"
                   /\ UNCHANGED metadata
              ELSE /\ metadata' = r[2]
                   /\ pc' = "holders"
                   /\ UNCHANGED exc
  /\ request_id' = request_id + 1
  /\ all_holders' = <<>>
  /\ page_token' = None
  /\ UNCHANGED <<provider, client_given, has_callback, should_close,
                 holder_count, holders, price, snapshot, returned, http_open,
                 files>>

\* Lines 209-221: one iteration of get_all_holders' loop. The page is the
\* provider's page for the cursor sent, unless the call fails.
GetAllHoldersPage ==
  /\ UNCHANGED pureVars
  /\ pc = "holders"
  /\ Len(Fetches) < MaxFetches
  /\ LET cursor == PageTokenParam(page_token)
     IN  \E response \in {HttpError, ErrorBody, OkBody(provider[cursor])} :
           LET r == RpcCall(response)
               step == IF r[1] = "raise" THEN PageFailed(all_holders, r[2])
                       ELSE PageFetched(all_holders, r[2], has_callback)
           IN  /\ trace' = Append(trace, Rpc("ankr_getTokenHolders", cursor, response))
                             \o step.events
               /\ all_holders' = step.all_holders
               /\ page_token' = step.page_token
               /\ exc' = step.exc
               /\ holders' = IF step.status = "return" THEN Some(step.all_holders)
                             ELSE holders
               /\ pc' = CASE step.status = "raise" -> "finally"
                          [] step.status = "return" -> "price"
                          [] OTHER -> "holders"
  /\ request_id' = request_id + 1
  /\ UNCHANGED <<provider, client_given, has_callback, should_close,
                 holder_count, metadata, price, snapshot, returned, http_open,
                 files>>

\* Line 83: the price.
GetTokenPrice ==
  /\ UNCHANGED pureVars
  /\ pc = "price"
  /\ \E response \in Responses(PriceResults) :
       LET r == get_token_price(response)
       IN  /\ trace' = Append(trace, Rpc("ankr_getTokenPrice", None, response))
           /\ IF r[1] = "raise"
              THEN /\ exc' = Some(r[2])
                   /\ pc' = "finally"
                   /\ UNCHANGED price
              ELSE /\ price' = r[2]
                   /\ pc' = "build"
                   /\ UNCHANGED exc
  /\ request_id' = request_id + 1
  /\ UNCHANGED <<provider, client_given, has_callback, should_close,
                 holder_count, metadata, page_token, all_holders, holders,
                 snapshot, returned, http_open, files>>

\* A holder_count taken from the declared count.
SnapshotHolderCountDeclared(hs, declared) == declared

\* Line 92: the snapshot's holder_count.
SnapshotHolderCount(hs, declared) == Len(hs)

\* Lines 86-103: the snapshot record.
Snapshot(now, md, hs, declared, p) ==
  [timestamp |-> now,
   contract |-> Contract,
   blockchain |-> Blockchain,
   token_name |-> IF md # None THEN md[1].name ELSE "Unknown",
   token_symbol |-> IF md # None THEN md[1].symbol ELSE "???",
   holder_count |-> SnapshotHolderCount(hs, declared),
   price_usd |-> p,
   holders |-> [i \in 1 .. Len(hs) |->
                  [address |-> hs[i].address, balance |-> hs[i].balance,
                   balance_raw |-> hs[i].balance_raw, label |-> hs[i].label]]]

BuildSnapshot ==
  /\ UNCHANGED pureVars
  /\ pc = "build"
  /\ \E now \in Timestamps :
       snapshot' = Some(Snapshot(now, metadata, holders[1], holder_count[1], price))
  /\ pc' = "save"
  /\ UNCHANGED <<provider, client_given, has_callback, should_close,
                 holder_count, metadata, page_token, all_holders, holders,
                 price, exc, returned, request_id, http_open, files, trace>>

\* A record saved before the price was filled in.
SaveArgWithoutPrice(snap) == [snap EXCEPT !.price_usd = None]

\* Line 106: the record handed to save_snapshot.
SaveArg(snap) == snap

\* Line 106 and save_snapshot (19-41): the record is written to a new file
\* named after the label and the time, unless the directory or the file
\* cannot be written.
SaveSnapshot ==
  /\ UNCHANGED pureVars
  /\ pc = "save"
  /\ trace' = Append(trace, [ev |-> "save", arg |-> <<SaveArg(snapshot[1])>>])
  /\ \/ \E now \in FileTimes :
          /\ files' = Append(files, [filename |-> <<"holders_bsc", now>>,
                                     data |-> SaveArg(snapshot[1])])
          /\ UNCHANGED exc
     \/ /\ exc' = Some("OSError")
        /\ UNCHANGED files
  /\ pc' = "finally"
  /\ UNCHANGED <<provider, client_given, has_callback, should_close,
                 holder_count, metadata, page_token, all_holders, holders,
                 price, snapshot, returned, request_id, http_open>>

\* Lines 108-112: the finally block closes an owned client; then the
\* snapshot is returned, or the pending exception propagates.
Finally ==
  /\ UNCHANGED pureVars
  /\ pc = "finally"
  /\ IF should_close
     THEN /\ trace' = Append(trace, [ev |-> "close", arg |-> <<>>])
          /\ http_open' = FALSE
     ELSE UNCHANGED <<trace, http_open>>
  /\ IF exc = None
     THEN returned' = snapshot /\ pc' = "returned"
     ELSE UNCHANGED returned /\ pc' = "raised"
  /\ UNCHANGED <<provider, client_given, has_callback, should_close,
                 holder_count, metadata, page_token, all_holders, holders,
                 price, snapshot, exc, request_id, files>>

Next ==
  \/ Enter
  \/ GetTokenHoldersCount
  \/ GetTokenMetadata
  \/ GetAllHoldersPage
  \/ GetTokenPrice
  \/ BuildSnapshot
  \/ SaveSnapshot
  \/ Finally

Spec == Init /\ [][Next]_vars

\* ------------------------------------------------------ properties: helpers
RECURSIVE RawCount(_)
\* Holders on the provider pages `ps`, as the provider counts them.
RawCount(ps) ==
  IF ps = <<>> THEN 0 ELSE Len(Get(Head(ps), "holders", <<>>)) + RawCount(Tail(ps))

\* The holder get_token_holders makes of each raw record.
HolderOf == [h \in RawRecords |-> TokenHolder(h)]

RECURSIVE PagesInOrder(_)
\* The holders of the provider pages `ps`, page after page.
PagesInOrder(ps) ==
  IF ps = <<>> THEN <<>>
  ELSE LET raw == Get(Head(ps), "holders", <<>>)
       IN  [i \in 1 .. Len(raw) |-> HolderOf[raw[i]]] \o PagesInOrder(Tail(ps))

\* No page before the last of the provider's page sequence is empty.
NoEmptyInnerPage(p) ==
  \A i \in 1 .. Len(PageSequence(p)) - 1 : PageSequence(p)[i].holders # <<>>

\* The i-th page request, how it ended, and the provider's page for it.
FetchOk(i) == Fetches[i].arg[3] = "ok"
PageAt(i) == provider[Fetches[i].arg[2]]
FetchedPages(n) == LET fs == Fetches IN [i \in 1 .. n |-> provider[fs[i].arg[2]]]

\* A page after which the collection is over.
IsLastPage(result) == ~Truthy(NextOf(result)) \/ Get(result, "holders", <<>>) = <<>>

Failed(method) == \E k \in 1 .. Len(trace) : IsRpc(trace[k], method) /\ trace[k].arg[3] # "ok"
FailedLast(method) ==
  /\ trace # <<>>
  /\ IsRpc(trace[Len(trace)], method)
  /\ trace[Len(trace)].arg[3] # "ok"

Events(kind) == SelectSeq(trace, LAMBDA e : e.ev = kind)
RpcEvents == Events("rpc")

\* ---------------------------------------------------------------- C1
\* C1 as stated: for a provider page sequence ended by an absent/empty token,
\* get_all_holders returns the holders of ALL pages of the sequence, in page
\* order, as many as the pages hold together.
C1_AllPagesOfSequence ==
  (holders # None /\ Terminated(provider)) =>
     /\ Len(holders[1]) = RawCount(PageSequence(provider))
     /\ holders[1] = PagesInOrder(PageSequence(provider))

\* C1, amended: the same, for page sequences in which no page before the
\* last is empty (an empty page with a token ends the collection early).
C1_AllPagesUnlessEmptyInner ==
  (holders # None /\ Terminated(provider) /\ NoEmptyInnerPage(provider)) =>
     /\ Len(holders[1]) = RawCount(PageSequence(provider))
     /\ holders[1] = PagesInOrder(PageSequence(provider))

C1_Witness ==
  /\ pc = "returned"
  /\ Terminated(provider) /\ NoEmptyInnerPage(provider)
  /\ Len(PageSequence(provider)) = 3
  /\ Len(holders[1]) = 3
  /\ holders[1][1] # holders[1][2]

\* ---------------------------------------------------------------- C2
\* C2: every page fetched before the last one had a non-empty token and
\* holders; the first page without either is the last request, and the
\* collection then returns what was accumulated, with no exception raised
\* by the collection (an empty page with a token included).
C2_StopsAtLastPage ==
  LET fs == Fetches
      n == Len(fs)
      ok(i) == fs[i].arg[3] = "ok"
      page(i) == provider[fs[i].arg[2]]
  IN  /\ \A i \in 1 .. n :
           (i < n \/ pc = "holders") => (ok(i) /\ ~IsLastPage(page(i)))
      /\ \A i \in 1 .. n :
           (ok(i) /\ IsLastPage(page(i))) =>
              /\ i = n
              /\ pc # "holders"
              /\ holders = Some(all_holders)
              /\ all_holders = PagesInOrder(FetchedPages(n))
              /\ exc \in {None, Some("OSError")}

C2_Witness ==
  /\ pc = "price"
  /\ Len(Fetches) = 2
  /\ PageAt(2).holders = <<>> /\ Truthy(NextOf(PageAt(2)))
  /\ holders = Some(all_holders)
  /\ Len(all_holders) = 1
  /\ exc = None

\* ---------------------------------------------------------------- C3
\* C3 as stated: every page request of get_all_holders asks for a new page
\* (no cursor is requested twice), so the requests are at most as many as
\* the provider's distinct cursors.
C3_EveryFetchIsNewPage ==
  /\ \A i, j \in 1 .. Len(Fetches) : i # j => Fetches[i].arg[2] # Fetches[j].arg[2]
  /\ Len(Fetches) <= Cardinality(Cursors)

\* ---------------------------------------------------------------- C4
\* C4: a failed page request is the last request of the run (no retry, no
\* further page), its exception is the one the build ends with, and no
\* holders are returned: get_all_holders yields nothing, the build nothing.
C4_FailedFetchAborts ==
  LET fs == Fetches
  IN  \A i \in 1 .. Len(fs) :
     fs[i].arg[3] # "ok" =>
        /\ i = Len(fs)
        /\ RpcEvents[Len(RpcEvents)] = fs[i]
        /\ exc = Some(fs[i].arg[3])
        /\ holders = None
        /\ snapshot = None /\ returned = None
        /\ pc \in {"finally", "raised"}

C4_Witness ==
  /\ pc = "raised"
  /\ Len(Fetches) = 3
  /\ FetchOk(1) /\ FetchOk(2) /\ ~FetchOk(3)
  /\ Len(all_holders) = 2
  /\ holders = None

\* ---------------------------------------------------------------- C5
\* The running total after the page request at trace position k.
TotalAt(k) ==
  RawCount(FetchedPages(Len(SelectSeq(SubSeq(trace, 1, k),
                                      LAMBDA e : IsRpc(e, "ankr_getTokenHolders")))))

\* C5: with a callback, each successful page request is followed at once
\* (before any other request) by one callback carrying the running total
\* with that page included; every callback follows such a request; a failed
\* request is followed by none; the values never decrease.
C5_ProgressOncePerPage ==
  has_callback =>
    /\ \A k \in 1 .. Len(trace) :
         IsRpc(trace[k], "ankr_getTokenHolders") =>
            IF trace[k].arg[3] = "ok"
            THEN /\ k < Len(trace)
                 /\ trace[k + 1] = [ev |-> "progress", arg |-> <<TotalAt(k)>>]
            ELSE k = Len(trace) \/ trace[k + 1].ev # "progress"
    /\ \A k \in 1 .. Len(trace) :
         trace[k].ev = "progress" =>
            /\ k > 1
            /\ IsRpc(trace[k - 1], "ankr_getTokenHolders")
            /\ trace[k - 1].arg[3] = "ok"
    /\ LET ps == Events("progress")
       IN  /\ \A i, j \in 1 .. Len(ps) : i <= j => ps[i].arg[1] <= ps[j].arg[1]
           /\ ps # <<>> => ps[Len(ps)].arg[1] = Len(all_holders)

C5_Witness ==
  /\ has_callback
  /\ pc = "returned"
  /\ Len(Fetches) = 3
  /\ [i \in 1 .. 3 |-> Events("progress")[i].arg[1]] = <<1, 2, 2>>

\* ---------------------------------------------------------------- C6
\* C6: once a page request has failed, save_snapshot is never called, no
\* file is written, no snapshot exists and the build ends with the
\* exception; save_snapshot is called only after get_all_holders returned.
C6_NoSaveAfterFailedCollection ==
  /\ Failed("ankr_getTokenHolders") =>
        /\ Events("save") = <<>>
        /\ files = <<>>
        /\ snapshot = None
        /\ exc # None
        /\ pc \in {"finally", "raised"}
  /\ (Events("save") # <<>> \/ files # <<>>) =>
        /\ holders # None
        /\ \A i \in 1 .. Len(Fetches) : FetchOk(i)

C6_Witness ==
  /\ pc = "raised"
  /\ Failed("ankr_getTokenHolders")
  /\ Len(Fetches) >= 2
  /\ all_holders # <<>>
  /\ files = <<>>

C8_PriceFailureDegrades ==
  Failed("ankr_getTokenPrice") =>
     /\ price = None
     /\ FailedLast("ankr_getTokenPrice") => (pc \in {"build", "save"} /\ exc = None)
     /\ pc \in {"build", "save", "finally", "returned", "raised"}
     /\ exc \in {None, Some("OSError")}
     /\ snapshot # None =>
          /\ snapshot[1].price_usd = None
          /\ snapshot[1].holders = PagesInOrder(FetchedPages(Len(Fetches)))
     /\ pc = "returned" =>
          /\ returned = snapshot /\ snapshot # None
          /\ Len(files) = 1 /\ files[1].data = snapshot[1]

C8_Witness ==
  /\ pc = "returned"
  /\ Failed("ankr_getTokenPrice")
  /\ returned[1].price_usd = None
  /\ Len(returned[1].holders) = 3

\* ---------------------------------------------------------------- C9
\* C9: a build that returned has called save_snapshot exactly once, as the
\* last step after the count, metadata, page and price requests, with the
\* very record it returns, and that record is the one file written; before
\* the return nothing is returned, and save_snapshot is never called twice.
C9_SavedOnceAndReturned ==
  /\ Len(Events("save")) <= 1
  /\ pc # "returned" => returned = None
  /\ pc = "returned" =>
        /\ returned # None
        /\ Events("save") = <<[ev |-> "save", arg |-> returned]>>
        /\ Len(files) = 1 /\ files[1].data = returned[1]
        /\ \E k \in 1 .. Len(trace) :
             /\ trace[k].ev = "save"
             /\ \A j \in 1 .. Len(trace) : trace[j].ev = "rpc" => j < k
             /\ \E j \in 1 .. k : IsRpc(trace[j], "ankr_getTokenHoldersCount")
             /\ \E j \in 1 .. k : IsRpc(trace[j], "ankr_getCurrencies")
             /\ \E j \in 1 .. k : IsRpc(trace[j], "ankr_getTokenHolders")
             /\ \E j \in 1 .. k : IsRpc(trace[j], "ankr_getTokenPrice")

C9_Witness ==
  /\ pc = "returned"
  /\ Len(files) = 1
  /\ files[1].data = returned[1]
  /\ returned[1].price_usd = Some(25)
  /\ Len(Fetches) = 2

\* ---------------------------------------------------------------- C10
\* C10: in the snapshot built, written and returned, holder_count is the
\* length of holders, whatever count the provider declared.
C10_HolderCountIsLength ==
  /\ snapshot # None => snapshot[1].holder_count = Len(snapshot[1].holders)
  /\ returned # None => returned[1].holder_count = Len(returned[1].holders)
  /\ \A i \in 1 .. Len(files) : files[i].data.holder_count = Len(files[i].data.holders)

C10_Witness ==
  /\ pc = "returned"
  /\ holder_count = Some(DeclaredCount)
  /\ returned[1].holder_count = 3
  /\ returned[1].holder_count # DeclaredCount

\* ------------------------------------------------------- compare_snapshots
\* Bound: holders in one snapshot given to compare_snapshots.
MaxHolders == 2

DiffAddresses == {<<"0", "x", "A">>, <<"0", "x", "B">>}

\* Balances as stored: one value written two ways, and one balance kept
\* with two raw integers.
DiffBalances == {<<"1.5", "15">>, <<"1.50", "15">>, <<"1.5", "16">>}

DiffHolders ==
  {[address |-> a, balance |-> b[1], balance_raw |-> b[2], label |-> ""] :
     a \in DiffAddresses, b \in DiffBalances}

RECURSIVE ListsUpTo(_, _)
\* The lists of at most n elements of S (an address may come twice).
ListsUpTo(S, n) ==
  IF n = 0 THEN {<<>>}
  ELSE LET shorter == ListsUpTo(S, n - 1)
       IN  shorter \cup {Append(s, x) : s \in {t \in shorter : Len(t) = n - 1}, x \in S}

\* Snapshots as load_snapshot returns them: with their holders, or (a
\* malformed file) without the key.
DiffSnapshots ==
  {[contract |-> Contract, holders |-> hs] : hs \in ListsUpTo(DiffHolders, MaxHolders)}
    \cup {[contract |-> Contract]}

Range(s) == {s[i] : i \in 1 .. Len(s)}

RECURSIVE KeysOf(_)
\* The keys of {h["address"]: h for h in hs}, in insertion order: an
\* address keeps the place of its first occurrence.
KeysOf(hs) ==
  IF hs = <<>> THEN <<>>
  ELSE LET before == KeysOf(SubSeq(hs, 1, Len(hs) - 1))
           a == hs[Len(hs)].address
       IN  IF a \in Range(before) THEN before ELSE Append(before, a)

\* {h["address"]: h for h in hs}: a later holder of an address replaces an
\* earlier one.
AddressDict(hs) ==
  [keys |-> KeysOf(hs),
   val |-> [a \in {hs[i].address : i \in 1 .. Len(hs)} |->
              hs[CHOOSE i \in 1 .. Len(hs) :
                   /\ hs[i].address = a
                   /\ \A j \in i + 1 .. Len(hs) : hs[j].address # a]]]

\* A lookup of "holders" that raises when the key is missing.
HoldersOfSubscript(snap) ==
  IF "holders" \in DOMAIN snap THEN <<"ok", snap.holders>> ELSE <<"raise", "KeyError">>

\* Lines 128-129: snapshot.get("holders", [])
HoldersOf(snap) == <<"ok", Get(snap, "holders", <<>>)>>

\* [d[a] for a in d if a not in other]
NotIn(d, other) ==
  LET ks == SelectSeq(d.keys, LAMBDA a : a \notin DOMAIN other.val)
  IN  [i \in 1 .. Len(ks) |-> d.val[ks[i]]]

\* Line 131
NewHolders(old_addresses, new_addresses) == NotIn(new_addresses, old_addresses)

\* A removed_holders built by the expression of new_holders.
RemovedHoldersAsNew(old_addresses, new_addresses) == NotIn(new_addresses, old_addresses)

\* Line 132
RemovedHolders(old_addresses, new_addresses) == NotIn(old_addresses, new_addresses)

\* A test that reads the new holder's raw balance.
ChangedAgainstRaw(old_holder, new_holder) == old_holder.balance # new_holder.balance_raw

\* A test on the raw balances.
ChangedRaw(old_holder, new_holder) == old_holder.balance_raw # new_holder.balance_raw

\* Lines 136-138: old_bal != new_bal, on the balance strings
Changed(old_holder, new_holder) == old_holder.balance # new_holder.balance

\* Lines 134-143: an entry for every common address whose balance changed,
\* in the order `order` in which the set intersection is iterated.
BalanceChanges(old_addresses, new_addresses, order) ==
  LET changed == SelectSeq(order, LAMBDA a :
                   Changed(old_addresses.val[a], new_addresses.val[a]))
  IN  [i \in 1 .. Len(changed) |->
         [address |-> changed[i],
          old_balance |-> old_addresses.val[changed[i]].balance,
          new_balance |-> new_addresses.val[changed[i]].balance]]

\* The orders in which a set can be iterated.
Orders(S) == {s \in [1 .. Cardinality(S) -> S] : Range(s) = S}

\* set(old_addresses.keys()) & set(new_addresses.keys())
CommonKeys(old, new) ==
  LET o == HoldersOf(old)
      n == HoldersOf(new)
  IN  IF o[1] = "raise" \/ n[1] = "raise" THEN {}
      ELSE DOMAIN AddressDict(o[2]).val \cap DOMAIN AddressDict(n[2]).val

\* compare_snapshots (121-149).
compare_snapshots(old, new, order) ==
  LET o == HoldersOf(old)
      n == HoldersOf(new)
  IN  IF o[1] = "raise" THEN [status |-> "raise", exc |-> o[2]]
      ELSE IF n[1] = "raise" THEN [status |-> "raise", exc |-> n[2]]
      ELSE LET old_addresses == AddressDict(o[2])
               new_addresses == AddressDict(n[2])
           IN  [status |-> "ok",
                new_holders |-> NewHolders(old_addresses, new_addresses),
                removed_holders |-> RemovedHolders(old_addresses, new_addresses),
                balance_changes |-> BalanceChanges(old_addresses, new_addresses, order)]

\* No build is under way.
BuildIdle ==
  /\ provider = [c \in Cursors |-> [holders |-> <<>>]]
  /\ client_given = FALSE /\ has_callback = FALSE
  /\ pc = "idle" /\ should_close = FALSE
  /\ holder_count = None /\ metadata = None /\ page_token = None
  /\ all_holders = <<>> /\ holders = None /\ price = None
  /\ snapshot = None /\ exc = None /\ returned = None
  /\ request_id = 0 /\ http_open = FALSE
  /\ files = <<>> /\ trace = <<>>

InitDiff ==
  /\ BuildIdle
  /\ old_snapshot \in {Some(s) : s \in DiffSnapshots}
  /\ new_snapshot \in {Some(s) : s \in DiffSnapshots}
  /\ diff = None
  /\ label_address = None /\ label = None

\* One call compare_snapshots(old, new): the arguments stay as they are.
CompareSnapshots ==
  /\ diff = None
  /\ old_snapshot # None /\ new_snapshot # None
  /\ \E order \in Orders(CommonKeys(old_snapshot[1], new_snapshot[1])) :
       diff' = Some(compare_snapshots(old_snapshot[1], new_snapshot[1], order))
  /\ UNCHANGED <<old_snapshot, new_snapshot, label_address, label>>
  /\ UNCHANGED buildVars

NextDiff == CompareSnapshots

SpecDiff == InitDiff /\ [][NextDiff]_vars

\* ------------------------------------------------ properties: the differ
\* The addresses a snapshot holds, and the holder that stands for an address
\* (the last one listed).
AddressesIn(snap) == {h.address : h \in Range(Get(snap, "holders", <<>>))}
LastOf(snap, a) ==
  LET hs == Get(snap, "holders", <<>>)
      at == {i \in 1 .. Len(hs) : hs[i].address = a}
  IN  hs[CHOOSE i \in at : \A j \in at : j <= i]

Once(s) == \A i, j \in 1 .. Len(s) : i # j => s[i].address # s[j].address
AddressesOf(s) == {s[i].address : i \in 1 .. Len(s)}

\* ---------------------------------------------------------------- C11
\* C11: a snapshot compared with itself has no new holder, no removed
\* holder and no balance change, also when it lists an address twice.
C11_SelfDiffIsEmpty ==
  (diff # None /\ old_snapshot = new_snapshot) =>
     /\ diff[1].status = "ok"
     /\ diff[1].new_holders = <<>>
     /\ diff[1].removed_holders = <<>>
     /\ diff[1].balance_changes = <<>>

C11_Witness ==
  /\ diff # None
  /\ old_snapshot = new_snapshot
  /\ "holders" \in DOMAIN old_snapshot[1]
  /\ Len(old_snapshot[1].holders) = 2
  /\ old_snapshot[1].holders[1].address = old_snapshot[1].holders[2].address
  /\ old_snapshot[1].holders[1].balance # old_snapshot[1].holders[2].balance

\* ---------------------------------------------------------------- C12
\* C12: new_holders lists, once each and with its holder of `new`, exactly
\* the addresses of `new` that `old` lacks; removed_holders the addresses of
\* `old` that `new` lacks, with the holder of `old`; a new holder's address
\* is in neither removed_holders nor balance_changes.
C12_NewAndRemoved ==
  diff # None =>
    /\ diff[1].status = "ok"
    /\ LET d == diff[1]
           o == old_snapshot[1]
           n == new_snapshot[1]
       IN  /\ AddressesOf(d.new_holders) = AddressesIn(n) \ AddressesIn(o)
           /\ Once(d.new_holders)
           /\ \A i \in 1 .. Len(d.new_holders) :
                d.new_holders[i] = LastOf(n, d.new_holders[i].address)
           /\ AddressesOf(d.removed_holders) = AddressesIn(o) \ AddressesIn(n)
           /\ Once(d.removed_holders)
           /\ \A i \in 1 .. Len(d.removed_holders) :
                d.removed_holders[i] = LastOf(o, d.removed_holders[i].address)
           /\ AddressesOf(d.new_holders)
                \cap (AddressesOf(d.removed_holders) \cup AddressesOf(d.balance_changes)) = {}

C12_Witness ==
  /\ diff # None
  /\ Len(diff[1].new_holders) = 1
  /\ Len(diff[1].removed_holders) = 1
  /\ Len(new_snapshot[1].holders) = 2
  /\ diff[1].new_holders[1] = new_snapshot[1].holders[2]
  /\ diff[1].new_holders[1] # new_snapshot[1].holders[1]

\* ---------------------------------------------------------------- C13
\* C13: balance_changes has one entry {address, old_balance, new_balance}
\* for each address in both snapshots whose balance strings differ, and no
\* other entry: balance_raw plays no part, two writings of one number
\* differ, and such an address is in neither new_holders nor
\* removed_holders.
C13_BalanceChanges ==
  diff # None =>
    /\ diff[1].status = "ok"
    /\ LET d == diff[1]
           o == old_snapshot[1]
           n == new_snapshot[1]
       IN  /\ AddressesOf(d.balance_changes) =
                {a \in AddressesIn(o) \cap AddressesIn(n) :
                   LastOf(o, a).balance # LastOf(n, a).balance}
           /\ Once(d.balance_changes)
           /\ \A i \in 1 .. Len(d.balance_changes) :
                d.balance_changes[i] =
                  [address |-> d.balance_changes[i].address,
                   old_balance |-> LastOf(o, d.balance_changes[i].address).balance,
                   new_balance |-> LastOf(n, d.balance_changes[i].address).balance]
           /\ AddressesOf(d.balance_changes)
                \cap (AddressesOf(d.new_holders) \cup AddressesOf(d.removed_holders)) = {}

C13_Witness ==
  /\ diff # None
  /\ AddressesIn(old_snapshot[1]) = DiffAddresses
  /\ AddressesIn(new_snapshot[1]) = DiffAddresses
  /\ diff[1].balance_changes =
       <<[address |-> <<"0", "x", "A">>, old_balance |-> "1.5", new_balance |-> "1.50"]>>
  /\ LastOf(old_snapshot[1], <<"0", "x", "B">>).balance_raw
       # LastOf(new_snapshot[1], <<"0", "x", "B">>).balance_raw

\* ---------------------------------------------------------------- C14
\* C14: compare_snapshots never raises on these snapshots; a snapshot
\* without "holders" counts as one without holders, so every address of the
\* other snapshot is reported new (or removed) and nothing else is.
C14_TotalAndMissingHolders ==
  diff # None =>
    /\ diff[1].status = "ok"
    /\ "holders" \notin DOMAIN old_snapshot[1] =>
         /\ AddressesOf(diff[1].new_holders) = AddressesIn(new_snapshot[1])
         /\ Len(diff[1].new_holders) = Cardinality(AddressesIn(new_snapshot[1]))
         /\ diff[1].removed_holders = <<>>
         /\ diff[1].balance_changes = <<>>
    /\ "holders" \notin DOMAIN new_snapshot[1] =>
         /\ AddressesOf(diff[1].removed_holders) = AddressesIn(old_snapshot[1])
         /\ Len(diff[1].removed_holders) = Cardinality(AddressesIn(old_snapshot[1]))
         /\ diff[1].new_holders = <<>>
         /\ diff[1].balance_changes = <<>>

C14_Witness ==
  /\ diff # None
  /\ "holders" \notin DOMAIN old_snapshot[1]
  /\ diff[1].status = "ok"
  /\ Len(diff[1].new_holders) = 2

\* ------------------------------------------------- get_holder_label calls
UpperChar(c) ==
  CASE c = "a" -> "A" [] c = "b" -> "B" [] c = "c" -> "C" [] c = "d" -> "D"
    [] c = "e" -> "E" [] c = "f" -> "F" [] c = "x" -> "X" [] OTHER -> c

\* str.upper()
Upper(s) == [i \in 1 .. Len(s) |-> UpperChar(s[i])]

\* The other case of a letter.
SwapChar(c) == IF LowerChar(c) = c THEN UpperChar(c) ELSE LowerChar(c)

BURN_ADDRESS ==
  <<"0","x","0","0","0","0","0","0","0","0","0","0","0","0","0","0","0","0","0","0","0","0","0","0","0","0","0","0","0","0","0","0","0","0","0","0","0","0","d","E","a","D">>

\* The positions of an address that hold a letter.
Letters(a) == {i \in 1 .. Len(a) : UpperChar(a[i]) # LowerChar(a[i])}

\* Every spelling of an address that differs from it in letter case only.
CaseVariants(a) ==
  {[i \in 1 .. Len(a) |-> IF i \in swapped THEN SwapChar(a[i]) ELSE a[i]] :
     swapped \in SUBSET Letters(a)}

\* An address of no table entry.
UnknownAddress == [i \in 1 .. Len(NULL_ADDRESS) |-> IF i = 2 THEN "x" ELSE "1"]

\* The addresses looked up: every spelling of the burn and null addresses,
\* each table key as written, lower-cased and upper-cased, and an address
\* that is not in the table (in both spellings of its prefix).
LabelInputs ==
  CaseVariants(BURN_ADDRESS) \cup CaseVariants(NULL_ADDRESS)
    \cup CaseVariants(UnknownAddress)
    \cup UNION {{k, Lower(k), Upper(k)} : k \in DOMAIN KNOWN_LABELS}

InitLabel ==
  /\ BuildIdle
  /\ old_snapshot = None /\ new_snapshot = None /\ diff = None
  /\ label_address \in {Some(a) : a \in LabelInputs}
  /\ label = None

\* One call get_holder_label(address).
GetHolderLabel ==
  /\ label = None
  /\ label_address # None
  /\ label' = Some(get_holder_label(label_address[1]))
  /\ UNCHANGED <<old_snapshot, new_snapshot, diff, label_address>>
  /\ UNCHANGED buildVars

NextLabel == GetHolderLabel

SpecLabel == InitLabel /\ [][NextLabel]_vars

\* ---------------------------------------------------------------- C15
\* The table keys an address equals up to letter case.
KeysMatching(a) == {k \in DOMAIN KNOWN_LABELS : Lower(k) = Lower(a)}

\* C15: the label of an address is the label of the table entry it equals
\* up to letter case (so "Null Address" for the null address and "Burn
\* Address" for the burn address), and "" when there is no such entry.
C15_CaseInsensitiveLabel ==
  label # None =>
    /\ \A k \in KeysMatching(label_address[1]) : label[1] = KNOWN_LABELS[k]
    /\ KeysMatching(label_address[1]) = {} => label[1] = ""

\* ---------------------------------------------- properties: paging, client
\* Page requests that were answered with a page.
OkFetches == SelectSeq(Fetches, LAMBDA e : e.arg[3] = "ok")

\* How often an address occurs among holders, and among the raw records of
\* provider pages.
Occurs(hs, a) == Cardinality({i \in 1 .. Len(hs) : hs[i].address = a})

RECURSIVE RawOccurs(_, _)
RawOccurs(ps, a) ==
  IF ps = <<>> THEN 0
  ELSE LET raw == Get(Head(ps), "holders", <<>>)
       IN  Cardinality({i \in 1 .. Len(raw) : Get(raw[i], "holderAddress", <<>>) = a})
             + RawOccurs(Tail(ps), a)

RawAddresses == {Get(h, "holderAddress", <<>>) : h \in RawRecords}

\* ---------------------------------------------------------------- C16
\* C16: the first page request carries no cursor; every later request
\* follows a request that was answered with a page, and carries the
\* (non-empty) nextPageToken of that page; so only the last request can
\* have failed, the holders accumulated are those of the pages answered,
\* one page per answered request, and a collection that returned made as
\* many requests as it consumed pages. The RPC ids count the requests.
C16_ChainedCursors ==
  LET fs == Fetches
      n == Len(fs)
      answered == Len(OkFetches)
  IN  /\ n > 0 => fs[1].arg[2] = None
      /\ \A i \in 1 .. n - 1 :
           /\ fs[i].arg[3] = "ok"
           /\ Truthy(NextOf(provider[fs[i].arg[2]]))
           /\ fs[i + 1].arg[2] = NextOf(provider[fs[i].arg[2]])
      /\ answered \in {n - 1, n}
      /\ all_holders = PagesInOrder(FetchedPages(answered))
      /\ pc = "holders" => answered = n
      /\ holders # None => answered = n /\ n > 0
      /\ request_id = Len(RpcEvents)

C16_Witness ==
  /\ holders # None
  /\ Len(Fetches) = 3
  /\ Fetches[2].arg[2] = Some("t1")
  /\ Fetches[3].arg[2] = Some("t2")
  /\ Len(holders[1]) = 3

\* ---------------------------------------------------------------- C17
\* C17: an address occurs in the accumulated list, in the list
\* get_all_holders returns, and in the holders of the snapshot built,
\* saved and returned, as often as it occurs on the pages fetched together;
\* holder_count counts every occurrence.
C17_NoDeduplication ==
  LET ps == FetchedPages(Len(OkFetches))
  IN  /\ \A a \in RawAddresses :
           LET k == RawOccurs(ps, a)
           IN  /\ Occurs(all_holders, a) = k
               /\ holders # None => Occurs(holders[1], a) = k
               /\ snapshot # None => Occurs(snapshot[1].holders, a) = k
               /\ returned # None => Occurs(returned[1].holders, a) = k
               /\ \A i \in 1 .. Len(files) : Occurs(files[i].data.holders, a) = k
      /\ snapshot # None => snapshot[1].holder_count = RawCount(ps)
      /\ returned # None => returned[1].holder_count = RawCount(ps)

C17_Witness ==
  /\ pc = "returned"
  /\ Len(Fetches) = 2
  /\ provider[None].holders = <<RawFull>>
  /\ provider[Some("t1")].holders = <<RawFull>>
  /\ holders[1] = <<HolderOf[RawFull], HolderOf[RawFull]>>
  /\ Len(returned[1].holders) = 2
  /\ returned[1].holders[1] = returned[1].holders[2]
  /\ returned[1].holder_count = 2
  /\ Len(files) = 1 /\ files[1].data.holder_count = 2

\* ---------------------------------------------------------------- C18
\* C18: a build that was given no client closes the one it created exactly
\* once, as its last step, on return and on every failure alike; a build
\* that was given a client never closes it, so its connection stays open;
\* no client is closed while the build is still at work.
C18_ClientClosedByOwner ==
  LET closes == Events("close")
  IN  /\ pc \notin {"returned", "raised"} => closes = <<>>
      /\ pc \in {"returned", "raised"} =>
           IF client_given
           THEN closes = <<>> /\ http_open
           ELSE /\ Len(closes) = 1
                /\ trace[Len(trace)].ev = "close"
                /\ ~http_open

C18_Witness ==
  /\ pc = "raised"
  /\ ~client_given
  /\ exc = Some("OSError")
  /\ Len(Events("save")) = 1
  /\ trace[Len(trace)].ev = "close"
====
